---- MODULE Spec2Model ----
(***************************************************************************)
(* Model of the KIKAMISHA version CLI.  The repository holds three         *)
(* variants of the same program:                                           *)
(*   "publish"  - src/version-cli.js lines 1-260   (prompts, npm publish)  *)
(*   "push"     - src/version-cli.js lines 261-437 (prompts, push yes/no)  *)
(*   "readline" - src/unnamed/part_000             (readline, no push)     *)
(* Strings are sequences of one-character strings, so that split('.'),     *)
(* Number() and template formatting are computed, not assumed.             *)
(***************************************************************************)
EXTENDS Integers, Sequences, FiniteSets, TLC

(* ---------------------------- bounds ----------------------------------- *)
\* version components 0..MaxComp are enumerated in the initial manifests
MaxComp == 1
\* how many times the readline variant may re-ask after an invalid choice
MaxReprompts == 2

(* ------------------------ JavaScript values ---------------------------- *)
\* Number results are naturals, or one of two encoded non-numbers
NaN == -1
UndefinedNum == -2
\* the value `undefined` where a string is expected (packageJson.version)
Undefined == <<"undefined">>
\* a const of main that has not been assigned yet
Unread == <<"unassigned">>

DigitChars == <<"0", "1", "2", "3", "4", "5", "6", "7", "8", "9">>

IsDigit(c) == \E i \in 1..Len(DigitChars) : DigitChars[i] = c

DigitVal(c) == (CHOOSE i \in 1..Len(DigitChars) : DigitChars[i] = c) - 1

\* String(n) for a non-negative integer
RECURSIVE ToStr(_)
ToStr(n) ==
    IF n < 10 THEN <<DigitChars[n + 1]>>
    ELSE ToStr(n \div 10) \o <<DigitChars[(n % 10) + 1]>>

\* `${x}` inside a template literal
Fmt(x) ==
    IF x = NaN THEN <<"N", "a", "N">>
    ELSE IF x = UndefinedNum THEN <<"u", "n", "d", "e", "f", "i", "n", "e", "d">>
    ELSE ToStr(x)

\* Number(s) for a string of the model's alphabet (digits, ".", letters)
RECURSIVE DecimalValue(_)
DecimalValue(s) ==
    IF s = <<>> THEN 0
    ELSE 10 * DecimalValue(SubSeq(s, 1, Len(s) - 1)) + DigitVal(s[Len(s)])

Number(s) ==
    IF s = <<>> THEN 0
    ELSE IF \A i \in 1..Len(s) : IsDigit(s[i]) THEN DecimalValue(s)
    ELSE NaN

\* s.split('.')
RECURSIVE Split(_)
Split(s) ==
    IF \A i \in 1..Len(s) : s[i] # "."
    THEN <<s>>
    ELSE LET i == CHOOSE j \in 1..Len(s) :
                     s[j] = "." /\ \A k \in 1..(j - 1) : s[k] # "."
         IN  <<SubSeq(s, 1, i - 1)>> \o Split(SubSeq(s, i + 1, Len(s)))

\* array destructuring: a missing element is undefined
Nth(arr, i) == IF i <= Len(arr) THEN arr[i] ELSE UndefinedNum

\* x + 1 in JavaScript arithmetic
PlusOne(x) == IF x = NaN \/ x = UndefinedNum THEN NaN ELSE x + 1

\* mutant: the minor bump forgets to reset the patch component
calculateNewVersion_keepPatch(current, type) ==
    LET parts == Split(current)
        nums  == [i \in 1..Len(parts) |-> Number(parts[i])]
        major == Nth(nums, 1)
        minor == Nth(nums, 2)
        patch == Nth(nums, 3)
    IN  CASE type = "major" -> Fmt(PlusOne(major)) \o <<".", "0", ".", "0">>
          [] type = "minor" -> Fmt(major) \o <<".">> \o Fmt(PlusOne(minor))
                                 \o <<".">> \o Fmt(patch)
          [] type = "patch" -> Fmt(major) \o <<".">> \o Fmt(minor)
                                 \o <<".">> \o Fmt(PlusOne(patch))
          [] OTHER -> current

calculateNewVersion(current, type) ==
    LET parts == Split(current)
        nums  == [i \in 1..Len(parts) |-> Number(parts[i])]
        major == Nth(nums, 1)
        minor == Nth(nums, 2)
        patch == Nth(nums, 3)
    IN  CASE type = "major" -> Fmt(PlusOne(major)) \o <<".", "0", ".", "0">>
          [] type = "minor" -> Fmt(major) \o <<".">> \o Fmt(PlusOne(minor))
                                 \o <<".", "0">>
          [] type = "patch" -> Fmt(major) \o <<".">> \o Fmt(minor)
                                 \o <<".">> \o Fmt(PlusOne(patch))
          [] OTHER -> current

(* --------------------------- the manifest ------------------------------ *)
\* The file package.json is missing, is text JSON.parse rejects, or is the
\* text of an object: its members in file order (a key may be repeated).

\* obj[k] = v on an object kept as its members in insertion order
Put(obj, k, v) ==
    IF \E i \in 1..Len(obj) : obj[i][1] = k
    THEN [i \in 1..Len(obj) |-> IF obj[i][1] = k THEN <<k, v>> ELSE obj[i]]
    ELSE Append(obj, <<k, v>>)

\* JSON.parse of an object's text: a repeated key keeps its first position
\* and its last value
RECURSIVE JSONparse(_)
JSONparse(members) ==
    IF members = <<>> THEN <<>>
    ELSE LET last == members[Len(members)]
         IN  Put(JSONparse(SubSeq(members, 1, Len(members) - 1)), last[1], last[2])

\* JSON.stringify(obj, null, 2): the members in the object's key order
JSONstringify(obj) == obj

Keys(obj) == {obj[i][1] : i \in 1..Len(obj)}

\* obj[k]
Get(obj, k) ==
    IF k \in Keys(obj)
    THEN obj[CHOOSE i \in 1..Len(obj) : obj[i][1] = k][2]
    ELSE Undefined


\* mutant: the rewritten manifest keeps only the version field
updatePackageVersion_dropOthers(file, newVersion) ==
    [kind |-> "object", members |-> JSONstringify(<< <<"version", newVersion>> >>)]

\* the file after updatePackageVersion(newVersion); JSON.parse has succeeded
updatePackageVersion(file, newVersion) ==
    [kind    |-> "object",
     members |-> JSONstringify(Put(JSONparse(file.members), "version", newVersion))]

\* try { JSON.parse(readFileSync).version } catch { '0.0.0' }
getCurrentVersion(file) ==
    IF file.kind # "object" THEN <<"0", ".", "0", ".", "0">>
    ELSE Get(JSONparse(file.members), "version")

(* ------------------------- git command texts --------------------------- *)
\* mutant: the minor release is committed as a fix
commitMessage_minorAsFix(newVersion, versionType) ==
    CASE versionType = "major" ->
           <<"chore: release v">> \o newVersion
             \o <<"\n\nBREAKING CHANGE: major version release">>
      [] versionType = "minor" -> <<"fix: release v">> \o newVersion
      [] versionType = "patch" -> <<"fix: release v">> \o newVersion
      [] OTHER -> Undefined

commitMessage(newVersion, versionType) ==
    CASE versionType = "major" ->
           <<"chore: release v">> \o newVersion
             \o <<"\n\nBREAKING CHANGE: major version release">>
      [] versionType = "minor" -> <<"feat: release v">> \o newVersion
      [] versionType = "patch" -> <<"fix: release v">> \o newVersion
      [] OTHER -> Undefined

tagName(newVersion) == <<"v">> \o newVersion

(* ------------------------------ inputs --------------------------------- *)
Variants == {"publish", "push", "readline"}

VersionString(M, N, P) == ToStr(M) \o <<".">> \o ToStr(N) \o <<".">> \o ToStr(P)

\* version fields found in a manifest: every M.N.P up to the bound, versions
\* whose bump carries into a new digit, and strings that are not M.N.P
Triples ==
    {<<M, N, P>> : M \in 0..MaxComp, N \in 0..MaxComp, P \in 0..MaxComp}
    \cup {<<1, 2, 3>>, <<9, 9, 9>>, <<10, 19, 99>>}

Versions ==
    {VersionString(t[1], t[2], t[3]) : t \in Triples}
    \cup {<<"0", "1", ".", "0", "2", ".", "0", "3">>,
          <<"1", ".", "2">>,
          <<"1", ".", ".", "3">>,
          <<"1", ".", "x", ".", "3">>,
          <<"1", ".", "2", ".", "3", ".", "4">>,
          <<>>}

NameA == <<"name", <<"a">>>>
NameB == <<"name", <<"b">>>>
Private == <<"private", <<"t">>>>

Manifests ==
    {[kind |-> "missing", members |-> <<>>],
     [kind |-> "unparseable", members |-> <<>>]}
    \cup {[kind |-> "object", members |-> pre \o ver \o post] :
            pre  \in {<<>>, <<NameA>>},
            ver  \in {<<>>} \cup {<< <<"version", v>> >> : v \in Versions},
            post \in {<<>>, <<NameB>>, <<Private>>}}

BumpKinds == {"major", "minor", "patch"}

(* ------------------------------- state --------------------------------- *)
VARIABLES
    variant,            \* which of the three programs runs
    manifest,           \* package.json
    loggedIn,           \* npm whoami succeeds
    dirty,              \* git status --porcelain prints something
    requireOk,          \* `require` is defined where part_000 runs
    pc,                 \* position of the run
    proceed,            \* answer to "Continue anyway?" ("unasked" before)
    choice,             \* last answer to the bump-kind prompt
    currentVersion, versionType, newVersion,
    action,             \* answer to the publishing menu / "Push to git now?"
    publishedToNpm, pushedToGit,
    effects,            \* mutating commands issued so far, in order
    promptsShown,       \* number of questions put to the operator
    reprompts,          \* invalid choices answered by asking again
    completionReported, \* a "... completed successfully!" line was printed
    summary,            \* the Release Summary lines
    exitCode,           \* -1 while running
    outcome             \* how the run ended

env  == <<variant, loggedIn, dirty, requireOk>>
ctl  == <<pc, exitCode, outcome>>
sel  == <<choice, currentVersion, versionType, newVersion>>
pub  == <<action, publishedToNpm, pushedToGit>>
out  == <<completionReported, summary>>
vars == <<env, ctl, sel, pub, out, manifest, proceed, effects, promptsShown, reprompts>>

NoSummary == [shown |-> FALSE, npm |-> FALSE, git |-> FALSE]

Init ==
    /\ variant \in Variants
    /\ manifest \in Manifests
    /\ loggedIn \in BOOLEAN
    /\ dirty \in BOOLEAN
    /\ requireOk \in BOOLEAN
    /\ (variant # "readline" => requireOk)
    /\ pc = "start"
    /\ proceed = "unasked"
    /\ choice = "none"
    /\ currentVersion = Unread
    /\ versionType = "none"
    /\ newVersion = Unread
    /\ action = "none"
    /\ publishedToNpm = FALSE
    /\ pushedToGit = FALSE
    /\ effects = <<>>
    /\ promptsShown = 0
    /\ reprompts = 0
    /\ completionReported = FALSE
    /\ summary = NoSummary
    /\ exitCode = -1
    /\ outcome = "running"

(* --------------------------- ways to end ------------------------------- *)
Terminate(code, how) == pc' = "done" /\ exitCode' = code /\ outcome' = how

Goto(p) == pc' = p /\ UNCHANGED <<exitCode, outcome>>

\* process.exit(1)
Exit1 == Terminate(1, "exit")

\* an exception leaves main (prompts variants: main().catch(console.error),
\* the process then ends normally) or a readline callback (uncaught)
Throw ==
    IF variant = "readline" THEN Terminate(1, "uncaught")
    ELSE Terminate(0, "rejected")

Issue(cmd, ok, arg) ==
    effects' = Append(effects, [cmd |-> cmd, ok |-> ok, arg |-> arg])


(* ------------------------------ main ----------------------------------- *)
\* if (!fs.existsSync('package.json')) process.exit(1)
CheckManifest ==
    /\ pc = "start"
    /\ IF manifest.kind = "missing" THEN Exit1
       ELSE Goto(IF variant = "publish" THEN "npm" ELSE "status")
    /\ UNCHANGED <<env, sel, pub, out, manifest, proceed, effects, promptsShown,
                   reprompts>>

\* mutant: the login check reports but does not exit
CheckNpmLogin_noExit ==
    /\ pc = "npm"
    /\ Goto("status")
    /\ UNCHANGED <<env, sel, pub, out, manifest, proceed, effects, promptsShown,
                   reprompts>>

\* if (!isLoggedInToNpm()) process.exit(1)       (publish variant only)
CheckNpmLogin ==
    /\ pc = "npm"
    /\ IF loggedIn THEN Goto("status") ELSE Exit1
    /\ UNCHANGED <<env, sel, pub, out, manifest, proceed, effects, promptsShown,
                   reprompts>>

\* git status --porcelain; on output git status --short and "Continue anyway?"
\* Any throw inside the try block ends in the catch: process.exit(1).
CheckGitStatus ==
    /\ pc = "status"
    /\ \E statusOk \in BOOLEAN, shortOk \in BOOLEAN :
         IF ~statusOk THEN Exit1 /\ UNCHANGED promptsShown
         ELSE IF ~dirty THEN Goto("continue") /\ UNCHANGED promptsShown
         ELSE IF ~shortOk THEN Exit1 /\ UNCHANGED promptsShown
         ELSE IF variant = "readline" /\ ~requireOk
              THEN Exit1 /\ UNCHANGED promptsShown
         ELSE Goto("confirm") /\ promptsShown' = promptsShown + 1
    /\ UNCHANGED <<env, sel, pub, out, manifest, proceed, effects, reprompts>>

\* what the operator can answer to "Continue anyway?"
ConfirmAnswers ==
    IF variant = "readline" THEN {"y", "Y", "n", "yes", ""}
    ELSE {"true", "false", "cancel"}

\* mutant: the pattern lacks its end anchor, /^[Yy]/
Accepts_unanchored(answer) ==
    IF variant = "readline" THEN answer \in {"y", "Y", "yes"} ELSE answer = "true"

\* proceed.value is truthy / answer.match(/^[Yy]$/)
Accepts(answer) ==
    IF variant = "readline" THEN answer \in {"y", "Y"} ELSE answer = "true"

ConfirmContinue ==
    /\ pc = "confirm"
    /\ \E answer \in ConfirmAnswers :
         IF Accepts(answer)
         THEN proceed' = answer /\ Goto("continue")
         ELSE proceed' = answer /\ Exit1
    /\ UNCHANGED <<env, sel, pub, out, manifest, effects, promptsShown, reprompts>>

\* getCurrentVersion(), the three previews, then the bump-kind question.
\* calculateNewVersion(undefined, ..) throws a TypeError; in part_000 so does
\* require('readline') where require is not defined.  part_000 runs this
\* inside main's try block when the tree is clean, else in a callback.
ContinueProcess ==
    /\ pc = "continue"
    /\ LET cv == getCurrentVersion(manifest)
           throws == cv = Undefined \/ (variant = "readline" /\ ~requireOk)
       IN  /\ currentVersion' = cv
           /\ IF throws
              THEN /\ IF variant = "readline" /\ ~dirty THEN Exit1 ELSE Throw
                   /\ UNCHANGED promptsShown
              ELSE /\ promptsShown' = promptsShown + 1
                   /\ Goto("select")
    /\ UNCHANGED <<env, choice, versionType, newVersion, pub, out, manifest,
                   proceed, effects, reprompts>>

\* what the operator can answer to the bump-kind question
Choices ==
    IF variant = "readline" THEN {"1", "2", "3", "x", ""}
    ELSE {"major", "minor", "patch", "cancel"}

\* mutant: anything else falls through to the preselected patch
VersionTypeOf_defaultPatch(c) ==
    CASE c \in {"major", "1"} -> "major"
      [] c \in {"minor", "2"} -> "minor"
      [] OTHER -> "patch"

\* versionResponse.versionType / the switch on the typed choice
VersionTypeOf(c) ==
    CASE c \in {"major", "1"} -> "major"
      [] c \in {"minor", "2"} -> "minor"
      [] c \in {"patch", "3"} -> "patch"
      [] OTHER -> "undefined"

\* prompts: no versionType -> process.exit(1).  readline: an invalid choice
\* asks again.  A valid choice computes the new version.
SelectVersion ==
    /\ pc = "select"
    /\ \E c \in Choices :
         /\ choice' = c
         /\ IF VersionTypeOf(c) \in BumpKinds
            THEN /\ versionType' = VersionTypeOf(c)
                 /\ newVersion' = calculateNewVersion(currentVersion, VersionTypeOf(c))
                 /\ Goto("update")
                 /\ UNCHANGED <<promptsShown, reprompts>>
            ELSE IF variant = "readline"
            THEN /\ reprompts < MaxReprompts
                 /\ reprompts' = reprompts + 1
                 /\ promptsShown' = promptsShown + 1
                 /\ UNCHANGED <<versionType, newVersion, ctl>>
            ELSE /\ versionType' = "undefined"
                 /\ Exit1
                 /\ UNCHANGED <<newVersion, promptsShown, reprompts>>
    /\ UNCHANGED <<env, currentVersion, pub, out, manifest, proceed, effects>>

\* updatePackageVersion(newVersion): JSON.parse throws on an unparseable file
UpdatePackageVersion ==
    /\ pc = "update"
    /\ IF manifest.kind = "object"
       THEN /\ manifest' = updatePackageVersion(manifest, newVersion)
            /\ Issue("write", TRUE, newVersion)
            /\ Goto("add")
       ELSE /\ Throw
            /\ UNCHANGED <<manifest, effects>>
    /\ UNCHANGED <<env, sel, pub, out, proceed, promptsShown, reprompts>>

\* execSync('git add package.json')
GitAdd ==
    /\ pc = "add"
    /\ \E ok \in BOOLEAN :
         /\ Issue("add", ok, <<>>)
         /\ IF ok THEN Goto("commit") ELSE Throw
    /\ UNCHANGED <<env, sel, pub, out, manifest, proceed, promptsShown, reprompts>>

\* mutant: a failed commit is swallowed and the run goes on to tag
GitCommit_ignoringFailure ==
    /\ pc = "commit"
    /\ \E ok \in BOOLEAN :
         /\ Issue("commit", ok, commitMessage(newVersion, versionType))
         /\ Goto("tag")
    /\ UNCHANGED <<env, sel, pub, out, manifest, proceed, promptsShown, reprompts>>

\* execSync(`git commit -m "${commitMessage}"`)
GitCommit ==
    /\ pc = "commit"
    /\ \E ok \in BOOLEAN :
         /\ Issue("commit", ok, commitMessage(newVersion, versionType))
         /\ IF ok THEN Goto("tag") ELSE Throw
    /\ UNCHANGED <<env, sel, pub, out, manifest, proceed, promptsShown, reprompts>>

\* mutant: a failed tag is swallowed and the run goes on
GitTag_ignoringFailure ==
    /\ pc = "tag"
    /\ \E ok \in BOOLEAN :
         /\ Issue("tag", ok, tagName(newVersion))
         /\ CASE variant = "publish" ->
                   /\ Goto("publishMenu")
                   /\ promptsShown' = promptsShown + 1
                   /\ UNCHANGED completionReported
              [] variant = "push" ->
                   /\ Goto("pushQuestion")
                   /\ promptsShown' = promptsShown + 1
                   /\ completionReported' = TRUE
              [] variant = "readline" ->
                   /\ Terminate(0, "returned")
                   /\ completionReported' = TRUE
                   /\ UNCHANGED promptsShown
    /\ UNCHANGED <<env, sel, pub, summary, manifest, proceed, reprompts>>

\* mutant: a failed tag is compensated, the manifest gets its old version back
GitTag_rollingBack ==
    /\ pc = "tag"
    /\ \E ok \in BOOLEAN :
         /\ IF ~ok
            THEN /\ manifest' = updatePackageVersion(manifest, currentVersion)
                 /\ effects' = effects \o
                        <<[cmd |-> "tag", ok |-> FALSE, arg |-> tagName(newVersion)],
                          [cmd |-> "write", ok |-> TRUE, arg |-> currentVersion]>>
                 /\ Throw
                 /\ UNCHANGED <<promptsShown, completionReported>>
            ELSE /\ Issue("tag", ok, tagName(newVersion))
                 /\ UNCHANGED manifest
                 /\ CASE variant = "publish" ->
                           /\ Goto("publishMenu")
                           /\ promptsShown' = promptsShown + 1
                           /\ UNCHANGED completionReported
                      [] variant = "push" ->
                           /\ Goto("pushQuestion")
                           /\ promptsShown' = promptsShown + 1
                           /\ completionReported' = TRUE
                      [] variant = "readline" ->
                           /\ Terminate(0, "returned")
                           /\ completionReported' = TRUE
                           /\ UNCHANGED promptsShown
    /\ UNCHANGED <<env, sel, pub, summary, proceed, reprompts>>

\* execSync(`git tag v${newVersion}`), then what follows gitOperations up to
\* the next question or the end of the run
GitTag ==
    /\ pc = "tag"
    /\ \E ok \in BOOLEAN :
         /\ Issue("tag", ok, tagName(newVersion))
         /\ IF ~ok THEN Throw /\ UNCHANGED <<promptsShown, completionReported>>
            ELSE CASE variant = "publish" ->
                        /\ Goto("publishMenu")
                        /\ promptsShown' = promptsShown + 1
                        /\ UNCHANGED completionReported
                   [] variant = "push" ->
                        /\ Goto("pushQuestion")
                        /\ promptsShown' = promptsShown + 1
                        /\ completionReported' = TRUE
                   [] variant = "readline" ->
                        /\ Terminate(0, "returned")
                        /\ completionReported' = TRUE
                        /\ UNCHANGED promptsShown
    /\ UNCHANGED <<env, sel, pub, summary, manifest, proceed, reprompts>>

PublishActions == {"publish-and-push", "push-only", "skip", "undefined"}

\* "Select publishing action:" and the switch on it     (publish variant)
SelectPublishAction ==
    /\ pc = "publishMenu"
    /\ \E a \in PublishActions :
         /\ action' = a
         /\ Goto(CASE a = "publish-and-push" -> "publish"
                   [] a = "push-only" -> "push"
                   [] OTHER -> "summary")
    /\ UNCHANGED <<env, sel, publishedToNpm, pushedToGit, out, manifest, proceed,
                   effects, promptsShown, reprompts>>

\* mutant: publishToNpm has no try/catch, a failed npm publish throws
PublishToNpm_throwing ==
    /\ pc = "publish"
    /\ \E ok \in BOOLEAN :
         /\ Issue("publish", ok, <<>>)
         /\ publishedToNpm' = ok
         /\ IF ok THEN Goto("push") ELSE Throw
    /\ UNCHANGED <<env, sel, action, pushedToGit, out, manifest, proceed,
                   promptsShown, reprompts>>

\* publishedToNpm = publishToNpm(): a failed npm publish is caught
PublishToNpm ==
    /\ pc = "publish"
    /\ \E ok \in BOOLEAN :
         /\ Issue("publish", ok, <<>>)
         /\ publishedToNpm' = ok
    /\ Goto("push")
    /\ UNCHANGED <<env, sel, action, pushedToGit, out, manifest, proceed,
                   promptsShown, reprompts>>

\* "Push to git now?"                                    (push variant)
ConfirmPush ==
    /\ pc = "pushQuestion"
    /\ \E a \in {"true", "false", "cancel"} :
         /\ action' = a
         /\ IF a = "true" THEN Goto("push") ELSE Terminate(0, "returned")
    /\ UNCHANGED <<env, sel, publishedToNpm, pushedToGit, out, manifest, proceed,
                   effects, promptsShown, reprompts>>

\* execSync('git push origin main --tags')
GitPush ==
    /\ pc = "push"
    /\ \E ok \in BOOLEAN :
         /\ Issue("push", ok, <<>>)
         /\ IF ~ok THEN Throw /\ UNCHANGED pushedToGit
            ELSE IF variant = "publish"
            THEN pushedToGit' = TRUE /\ Goto("summary")
            ELSE Terminate(0, "returned") /\ UNCHANGED pushedToGit
    /\ UNCHANGED <<env, sel, action, publishedToNpm, out, manifest, proceed,
                   promptsShown, reprompts>>

\* "Release completed successfully!" and the Release Summary (publish variant)
Summary ==
    /\ pc = "summary"
    /\ completionReported' = TRUE
    /\ summary' = [shown |-> TRUE, npm |-> publishedToNpm, git |-> pushedToGit]
    /\ Terminate(0, "returned")
    /\ UNCHANGED <<env, sel, pub, manifest, proceed, effects, promptsShown,
                   reprompts>>

Next ==
    \/ CheckManifest
    \/ CheckNpmLogin
    \/ CheckGitStatus
    \/ ConfirmContinue
    \/ ContinueProcess
    \/ SelectVersion
    \/ UpdatePackageVersion
    \/ GitAdd
    \/ GitCommit
    \/ GitTag
    \/ SelectPublishAction
    \/ PublishToNpm
    \/ ConfirmPush
    \/ GitPush
    \/ Summary

Spec == Init /\ [][Next]_vars


(* ======================= properties of the program ===================== *)
Cmds == [i \in 1..Len(effects) |-> effects[i].cmd]

Issued(cmd) == \E i \in 1..Len(effects) : effects[i].cmd = cmd

Succeeded(cmd) == \E i \in 1..Len(effects) : effects[i].cmd = cmd /\ effects[i].ok

Failed(cmd) == \E i \in 1..Len(effects) : effects[i].cmd = cmd /\ ~effects[i].ok

\* the version stored in the manifest, as JSON.parse reads it
StoredVersion == Get(JSONparse(manifest.members), "version")

\* C1: for every version "M.N.P" of non-negative integers the new version
\* computed by calculateNewVersion is "(M+1).0.0" for major, "M.(N+1).0" for
\* minor and "M.N.(P+1)" for patch (leading zeros denote the same integers).
C1_BumpArithmetic ==
    versionType \in BumpKinds =>
      /\ \A t \in Triples :
           currentVersion = VersionString(t[1], t[2], t[3]) =>
             newVersion =
               CASE versionType = "major" -> VersionString(t[1] + 1, 0, 0)
                 [] versionType = "minor" -> VersionString(t[1], t[2] + 1, 0)
                 [] versionType = "patch" -> VersionString(t[1], t[2], t[3] + 1)
      /\ currentVersion = <<"0", "1", ".", "0", "2", ".", "0", "3">> =>
             newVersion =
               CASE versionType = "major" -> VersionString(2, 0, 0)
                 [] versionType = "minor" -> VersionString(1, 3, 0)
                 [] versionType = "patch" -> VersionString(1, 2, 4)

\* C1 witness: a minor bump of 9.9.9 carried into a second digit and reset patch
C1_Witness ==
    /\ versionType = "minor"
    /\ currentVersion = VersionString(9, 9, 9)
    /\ newVersion = <<"9", ".", "1", "0", ".", "0">>

\* the operator answered "Continue anyway?" with something that is not a yes
Declined == proceed \notin {"unasked", "true", "y", "Y"}

\* C2: in every variant, when the tree has uncommitted changes and the
\* operator declines to continue, the run has ended with a non-zero exit
\* status, the manifest was not written and no git add/commit/tag/push or
\* npm publish was issued.
C2_DeclineStops ==
    (dirty /\ Declined) =>
      /\ pc = "done"
      /\ exitCode > 0
      /\ effects = <<>>

\* C2 witness: the readline variant, answer "yes" (not y or Y), run ended
C2_Witness ==
    /\ variant = "readline" /\ dirty /\ proceed = "yes"
    /\ pc = "done" /\ exitCode = 1

\* the last answer to the bump-kind question names no bump kind
NoValidKind == choice \in {"cancel", "x", ""}

\* C3 as stated: in every variant, when the operator gives no valid bump kind
\* the process has exited with a non-zero status, the manifest is unwritten
\* and no commit or tag exists.
C3_Original ==
    NoValidKind =>
      /\ pc = "done" /\ exitCode > 0
      /\ ~Issued("write") /\ ~Issued("commit") /\ ~Issued("tag")

\* C3 amended: when the operator gives no valid bump kind the manifest is
\* unwritten and no commit or tag exists; the prompts variants have exited
\* with status 1, the readline variant is asking again and has not exited.
C3_CancelNoMutation ==
    NoValidKind =>
      /\ ~Issued("write") /\ ~Issued("commit") /\ ~Issued("tag")
      /\ effects = <<>>
      /\ (variant # "readline" => pc = "done" /\ exitCode = 1)
      /\ (variant = "readline" => pc = "select" /\ exitCode = -1 /\ reprompts > 0)

\* C3 witness: the selection was cancelled in a prompts variant and the run
\* ended with status 1
C3_Witness ==
    /\ variant = "push" /\ choice = "cancel"
    /\ pc = "done" /\ exitCode = 1 /\ effects = <<>>

\* publish-and-push was chosen and npm publish failed
PublishFailed == variant = "publish" /\ action = "publish-and-push" /\ Failed("publish")

PushFollowsPublish ==
    \E i \in 1..Len(effects) :
       /\ effects[i].cmd = "publish"
       /\ i < Len(effects)
       /\ effects[i + 1].cmd = "push"

\* C4 as stated: after publish-and-push with a failed npm publish the push is
\* issued, the run reaches the summary, and the summary shows npm as not
\* published and git as pushed.
C4_Original ==
    (PublishFailed /\ pc = "done") =>
      /\ PushFollowsPublish
      /\ summary.shown /\ ~summary.npm /\ summary.git

\* C4 amended: after publish-and-push with a failed npm publish the run goes
\* on to issue the push; if that push succeeds the run reaches the summary,
\* which shows npm as not published and git as pushed.
C4_PublishFailureNotFatal ==
    PublishFailed =>
      /\ pc \in {"push", "summary", "done"}
      /\ (pc # "push" => PushFollowsPublish)
      /\ ((pc = "done" /\ Succeeded("push")) =>
            summary.shown /\ ~summary.npm /\ summary.git /\ exitCode = 0)

\* C4 witness: publish failed, push succeeded, summary printed
C4_Witness ==
    /\ PublishFailed /\ Succeeded("push")
    /\ pc = "done" /\ summary.shown /\ ~summary.npm /\ summary.git

\* C5 as stated: getCurrentVersion returns "0.0.0" when the manifest is
\* missing, unparseable or has no version field, and the stored version field
\* when there is one.
C5_Original ==
    (currentVersion # Unread /\ ~Issued("write")) =>
      currentVersion =
        IF manifest.kind = "object" /\ "version" \in Keys(JSONparse(manifest.members))
        THEN StoredVersion
        ELSE <<"0", ".", "0", ".", "0">>


\* the run met a failed precondition, in the variant that checks it
PreconditionFails(checksLogin) ==
    manifest.kind = "missing" \/ (checksLogin /\ ~loggedIn)

\* the run stopped with status 1 before any question and before any mutation
StoppedAtOnce ==
    /\ pc \in {"start", "npm", "done"}
    /\ (pc = "done" => exitCode = 1 /\ outcome = "exit")
    /\ promptsShown = 0
    /\ effects = <<>>

\* C6 as stated: when the manifest is missing or the operator is not logged
\* in to the registry, the run exits with status 1 before any prompt and
\* before any manifest write, git command or npm publish.
C6_Original == PreconditionFails(TRUE) => StoppedAtOnce

\* C6 amended: when the manifest is missing (any variant), or the operator is
\* not logged in to the registry in the variant that can publish, the run
\* exits with status 1 before any prompt and before any mutation; the other
\* two variants never ask the registry who is logged in.
C6_PreconditionExit == PreconditionFails(variant = "publish") => StoppedAtOnce

\* C6 witness: the publish variant, manifest present, not logged in, exited 1
C6_Witness ==
    /\ variant = "publish" /\ manifest.kind = "object" /\ ~loggedIn
    /\ pc = "done" /\ exitCode = 1 /\ promptsShown = 0 /\ effects = <<>>

\* C7: the step that rewrites the manifest leaves every key other than
\* version with its value, adds and removes no key, and stores newVersion in
\* the version field.
C7_WriteFrame ==
    [][(pc = "update" /\ pc' = "add") =>
         LET before == JSONparse(manifest.members)
             after  == JSONparse(manifest'.members)
         IN  /\ manifest'.kind = "object"
             /\ Keys(after) = Keys(before)
             /\ \A k \in Keys(before) \ {"version"} : Get(after, k) = Get(before, k)
             /\ Get(after, "version") = newVersion]_vars

\* C7 witness: a manifest with two other fields has been rewritten
C7_Witness ==
    /\ Issued("write")
    /\ Keys(JSONparse(manifest.members)) = {"name", "version", "private"}
    /\ StoredVersion = newVersion
    /\ newVersion # currentVersion

\* the commit message the release convention prescribes
ConventionalMessage(v, kind) ==
    CASE kind = "major" ->
           <<"chore: release v">> \o v \o <<"\n\nBREAKING CHANGE: major version release">>
      [] kind = "minor" -> <<"feat: release v">> \o v
      [] kind = "patch" -> <<"fix: release v">> \o v

\* C8: in a run that selected kind k on version v, the version written to
\* the manifest, the one in the commit message and the one in the tag are
\* all calculateNewVersion(v, k); the message follows the convention and the
\* tag is "v<new>"; 1.2.3 + minor gives 1.3.0, "feat: release v1.3.0", "v1.3.0".
C8_SameVersionEverywhere ==
    LET new == calculateNewVersion(currentVersion, versionType)
    IN  /\ \A i \in 1..Len(effects) :
             /\ effects[i].cmd = "write" => effects[i].arg = new
             /\ effects[i].cmd = "commit" =>
                    effects[i].arg = ConventionalMessage(new, versionType)
             /\ effects[i].cmd = "tag" => effects[i].arg = <<"v">> \o new
        /\ Issued("write") => StoredVersion = new
        /\ (Issued("tag") /\ currentVersion = VersionString(1, 2, 3)
              /\ versionType = "minor") =>
             /\ StoredVersion = <<"1", ".", "3", ".", "0">>
             /\ effects[3].arg = <<"feat: release v", "1", ".", "3", ".", "0">>
             /\ effects[4].arg = <<"v", "1", ".", "3", ".", "0">>

\* C8 witness: the scenario 1.2.3 + minor, tag created
C8_Witness ==
    /\ currentVersion = VersionString(1, 2, 3) /\ versionType = "minor"
    /\ Succeeded("tag")
    /\ StoredVersion = VersionString(1, 3, 0)

GitCmds == {"add", "commit", "tag", "push"}

GitFailed == \E c \in GitCmds : Failed(c)

\* the run was ended by the error and the failed command is the last one issued
AbortedByFailure ==
    /\ pc = "done"
    /\ outcome \in {"rejected", "uncaught"}
    /\ ~effects[Len(effects)].ok
    /\ effects[Len(effects)].cmd \in GitCmds
    /\ \A i \in 1..(Len(effects) - 1) : effects[i].cmd \in GitCmds => effects[i].ok

\* C9 as stated: a failed git add/commit/tag/push ends the run as a failure,
\* no later step is issued, and the run never reports successful completion.
C9_Original ==
    GitFailed => (AbortedByFailure /\ ~completionReported /\ ~summary.shown)

\* C9 amended: a failed git add/commit/tag/push ends the run by its error, no
\* later step is issued and nothing is reported after it; only the push
\* variant has by then printed "Version bump completed successfully!", which
\* it prints before it asks whether to push.
C9_GitFailureFatal ==
    GitFailed =>
      /\ AbortedByFailure
      /\ ~summary.shown
      /\ (completionReported => variant = "push" /\ Failed("push"))

\* C9 witness: the commit failed in the publish variant; nothing followed
C9_Witness ==
    /\ variant = "publish" /\ Failed("commit")
    /\ Cmds = <<"write", "add", "commit">>
    /\ pc = "done" /\ outcome = "rejected" /\ ~completionReported

FixedOrder == <<"write", "add", "commit", "tag", "publish", "push">>

Rank(cmd) == CHOOSE r \in 1..Len(FixedOrder) : FixedOrder[r] = cmd

\* C10: in every variant the side effects come in the order manifest write,
\* git add, git commit, git tag, then optionally npm publish, then optionally
\* git push; the manifest is written at most once and only after a bump kind
\* was selected; no add/commit/tag precedes the write; push and publish come
\* only after the tag was created.
C10_FixedOrder ==
    /\ \A i, j \in 1..Len(effects) : i < j => Rank(Cmds[i]) < Rank(Cmds[j])
    /\ \A i \in 1..Len(effects) :
         /\ i <= 4 => Cmds[i] = FixedOrder[i]
         /\ Cmds[i] = "write" => versionType \in BumpKinds
         /\ Cmds[i] \in {"publish", "push"} => effects[4].cmd = "tag" /\ effects[4].ok
    /\ Cardinality({i \in 1..Len(effects) : Cmds[i] = "write"}) <= 1

\* C10 witness: the full sequence, publish before push
C10_Witness == Cmds = FixedOrder


\* C11: there is no rollback: when the manifest write and the commit
\* succeeded and the tag creation failed, the run has ended, the manifest
\* still holds the new version, the commit stands, and the failed tag is the
\* last command issued: no compensating write or git command follows.
C11_NoRollback ==
    (Succeeded("write") /\ Succeeded("commit") /\ Failed("tag")) =>
      /\ pc = "done"
      /\ outcome \in {"rejected", "uncaught"}
      /\ manifest.kind = "object"
      /\ StoredVersion = newVersion
      /\ StoredVersion = calculateNewVersion(currentVersion, versionType)
      /\ Cmds = <<"write", "add", "commit", "tag">>
      /\ effects[3].ok

\* C11 witness: 1.2.3 was bumped to 1.2.4 and committed, the tag failed, and
\* the manifest still reads 1.2.4
C11_Witness ==
    /\ Succeeded("write") /\ Succeeded("commit") /\ Failed("tag")
    /\ currentVersion = VersionString(1, 2, 3)
    /\ StoredVersion = VersionString(1, 2, 4)
    /\ pc = "done"

====
